---- MODULE Spec2Model ----
(***************************************************************************)
(* Model of app.py of transcript-comments-dl: the SRT normalizer           *)
(* (parse_srt_contents), the subtitle language selection and the two       *)
(* retry loops (fetch_comments, fetch_transcript) and the form handler     *)
(* (main).  Text is modelled as a sequence of one-character strings, so    *)
(* that splitting, trimming and substring tests are computed as Python     *)
(* computes them.                                                          *)
(***************************************************************************)
EXTENDS Naturals, Integers, Sequences, FiniteSets, TLC

(***************************************************************************)
(* Bounds of the model.                                                    *)
(***************************************************************************)
\* longest enumerated input text of the normalizer
MaxLen == 5
\* most subtitle files a directory listing holds
MaxFiles == 3

(***************************************************************************)
(* Characters.  The control characters that TLA+ cannot write are named.   *)
(***************************************************************************)
\* str.splitlines() line boundaries: \n \r \v \f \x1c \x1d \x1e \x85
LineBreaks == {"\n", "\r", "\f", "VT", "FS", "GS", "RS", "NEL", "LS", "PS"}

\* str.isspace(): what str.strip() removes at both ends
Whitespace == LineBreaks \cup {" ", "\t", "US", "NBSP"}

\* what \d matches on a str pattern: every Unicode decimal digit (category Nd)
Digits == {"0", "1", "2", "3", "4", "5", "6", "7", "8", "9", "ARABIC-INDIC-3"}

\* the characters input texts are enumerated over
Alphabet == {"1", "a", " ", "\n", "\r", "-", ">"}

Texts == UNION {[1..n -> Alphabet] : n \in 0..MaxLen}

(***************************************************************************)
(* Python's string operations.                                             *)
(***************************************************************************)
Min(S) == CHOOSE x \in S : \A y \in S : x <= y
Max(S) == CHOOSE x \in S : \A y \in S : x >= y

\* pat in s
Contains(s, pat) ==
    \E i \in 1..(Len(s) - Len(pat) + 1) : SubSeq(s, i, i + Len(pat) - 1) = pat

\* s.strip()
Strip(s) ==
    LET idx == {i \in 1..Len(s) : s[i] \notin Whitespace}
    IN  IF idx = {} THEN <<>> ELSE SubSeq(s, Min(idx), Max(idx))

\* the elements of a set of numbers in increasing order
SortedSeq(S) ==
    [k \in 1..Cardinality(S) |-> CHOOSE t \in S : Cardinality({u \in S : u < t}) = k - 1]

\* s.splitlines(): a line ends at each line boundary, "\r\n" counting as one
\* boundary; a final line without a boundary is kept when it is not empty
SplitLines(s) ==
    LET crlf(i) == s[i] = "\r" /\ i < Len(s) /\ s[i + 1] = "\n"
        terms == SortedSeq({i \in 1..Len(s) :
                     /\ s[i] \in LineBreaks
                     /\ ~(s[i] = "\n" /\ i > 1 /\ s[i - 1] = "\r")})
        endOf(k) == IF k = 0 THEN 0
                    ELSE IF crlf(terms[k]) THEN terms[k] + 1 ELSE terms[k]
        n == Len(terms)
        ended == [k \in 1..n |-> SubSeq(s, endOf(k - 1) + 1, terms[k] - 1)]
    IN  IF endOf(n) < Len(s)
        THEN Append(ended, SubSeq(s, endOf(n) + 1, Len(s)))
        ELSE ended

\* sep.join(parts)
RECURSIVE Join(_, _)
Join(parts, sep) ==
    IF parts = <<>> THEN <<>>
    ELSE IF Len(parts) = 1 THEN parts[1]
    ELSE parts[1] \o sep \o Join(Tail(parts), sep)

\* re.match(r"^\d+$", s): one or more digits; $ also matches before a final \n
MatchDigits(s) ==
    LET body == IF Len(s) > 0 /\ s[Len(s)] = "\n"
                THEN SubSeq(s, 1, Len(s) - 1) ELSE s
    IN  /\ Len(body) > 0
        /\ \A i \in 1..Len(body) : body[i] \in Digits

Arrow == <<"-", "-", ">">>

(***************************************************************************)
(* parse_srt_contents                                                      *)
(***************************************************************************)
\* a slip: the counter test reads the raw line, not the trimmed one
ParseLoopRawDigits(lines, i, transcript_lines) ==
    LET keep(line) == /\ Strip(line) # <<>>
                      /\ ~MatchDigits(line)
                      /\ ~Contains(line, Arrow)
        rest == SelectSeq(SubSeq(lines, i, Len(lines)), keep)
    IN  transcript_lines \o [k \in 1..Len(rest) |-> Strip(rest[k])]

\* a slip: the timestamp test asks whether the line starts with "-->"
ParseLoopArrowPrefix(lines, i, transcript_lines) ==
    LET keep(line) == /\ Strip(line) # <<>>
                      /\ ~MatchDigits(Strip(line))
                      /\ SubSeq(Strip(line), 1, Len(Arrow)) # Arrow
        rest == SelectSeq(SubSeq(lines, i, Len(lines)), keep)
    IN  transcript_lines \o [k \in 1..Len(rest) |-> Strip(rest[k])]

\* the loop over lines, from line i, with transcript_lines so far
RECURSIVE ParseLoop(_, _, _)
ParseLoop(lines, i, transcript_lines) ==
    IF i > Len(lines) THEN transcript_lines
    ELSE LET line == lines[i]
         IN  IF Strip(line) = <<>> THEN ParseLoop(lines, i + 1, transcript_lines)
             ELSE IF MatchDigits(Strip(line))
                  THEN ParseLoop(lines, i + 1, transcript_lines)
             ELSE IF Contains(line, Arrow)
                  THEN ParseLoop(lines, i + 1, transcript_lines)
             ELSE ParseLoop(lines, i + 1, Append(transcript_lines, Strip(line)))

\* a slip: every kept line is followed by a newline, the last one too
ParseSrtContentsTrailing(contents) ==
    LET kept == ParseLoop(SplitLines(contents), 1, <<>>)
    IN  Join([k \in 1..Len(kept) |-> kept[k] \o <<"\n">>], <<>>)

ParseSrtContents(contents) ==
    Join(ParseLoop(SplitLines(contents), 1, <<>>), <<"\n">>)

(***************************************************************************)
(* Concrete subtitle files.                                                *)
(***************************************************************************)
\* '1\n00:00:01,000 --> 00:00:02,000\nHello world\n\n2\n00:00:03,000 --> 00:00:04,000\nSecond line\n\n'
Scenario ==
    <<"1","\n","0","0",":","0","0",":","0","1",",","0","0","0"," ","-","-",
      ">"," ","0","0",":","0","0",":","0","2",",","0","0","0","\n","H","e",
      "l","l","o"," ","w","o","r","l","d","\n","\n","2","\n","0","0",":",
      "0","0",":","0","3",",","0","0","0"," ","-","-",">"," ","0","0",":",
      "0","0",":","0","4",",","0","0","0","\n","S","e","c","o","n","d"," ",
      "l","i","n","e","\n","\n">>

\* 'Hello world\nSecond line'
ScenarioText ==
    <<"H","e","l","l","o"," ","w","o","r","l","d","\n","S","e","c","o","n",
      "d"," ","l","i","n","e">>

\* '7\r\n00:01 --> 00:02\r\n  Bonjour \n 42 \n\n'
MessyInput ==
    <<"7","\r","\n","0","0",":","0","1"," ","-","-",">"," ","0","0",":","0",
      "2","\r","\n"," "," ","B","o","n","j","o","u","r"," ","\n"," ","4",
      "2"," ","\n","\n">>

SampleTexts == {Scenario, MessyInput}

(***************************************************************************)
(* The video identifier: re.search(r"(?<=v=)[^&?]+|(?<=youtu.be/)[^?&]+")  *)
(***************************************************************************)
\* 'https://www.youtube.com/watch?v=yv441E-i4_w&t=5'
UrlWatch ==
    <<"h","t","t","p","s",":","/","/","w","w","w",".","y","o","u","t","u",
      "b","e",".","c","o","m","/","w","a","t","c","h","?","v","=","y","v",
      "4","4","1","E","-","i","4","_","w","&","t","=","5">>

\* 'https://youtu.be/dQw4w9WgXcQ?t=1'
UrlShort ==
    <<"h","t","t","p","s",":","/","/","y","o","u","t","u",".","b","e","/",
      "d","Q","w","4","w","9","W","g","X","c","Q","?","t","=","1">>

\* 'https://example.org/video'
UrlOther ==
    <<"h","t","t","p","s",":","/","/","e","x","a","m","p","l","e",".","o",
      "r","g","/","v","i","d","e","o">>

\* what the text input of the form may hold
Urls == {<<>>, UrlWatch, UrlShort, UrlOther}

\* the positions a match may start at: after "v=", or after "youtu", any
\* character but a newline, "be/"; the first matched character is not & or ?
MatchStarts(url) ==
    {p \in 1..Len(url) :
        /\ url[p] \notin {"&", "?"}
        /\ \/ p >= 3 /\ SubSeq(url, p - 2, p - 1) = <<"v", "=">>
           \/ /\ p >= 10
              /\ SubSeq(url, p - 9, p - 5) = <<"y", "o", "u", "t", "u">>
              /\ url[p - 4] # "\n"
              /\ SubSeq(url, p - 3, p - 1) = <<"b", "e", "/">>}

\* video_id_match.group(0), <<>> when there is no match: the leftmost match,
\* as long as the characters are not & or ?
VideoId(url) ==
    IF MatchStarts(url) = {} THEN <<>>
    ELSE LET p == Min(MatchStarts(url))
             stops == {q \in p..Len(url) : url[q] \in {"&", "?"}}
             last == IF stops = {} THEN Len(url) ELSE Min(stops) - 1
         IN  SubSeq(url, p, last)

(***************************************************************************)
(* Errors.  An exception is its type and its message; NoError is None.     *)
(***************************************************************************)
NoError == [type |-> "None", msg |-> <<>>]

\* 'Sign in to confirm'
SignInToConfirm ==
    <<"S","i","g","n"," ","i","n"," ","t","o"," ","c","o","n","f","i","r",
      "m">>

\* 'bot'
Bot ==
    <<"b","o","t">>

\* 'Sign in to confirm your age'
MsgSignInAge ==
    <<"S","i","g","n"," ","i","n"," ","t","o"," ","c","o","n","f","i","r",
      "m"," ","y","o","u","r"," ","a","g","e">>

\* 'HTTP Error 429: RoBOT check'
MsgRobot ==
    <<"H","T","T","P"," ","E","r","r","o","r"," ","4","2","9",":"," ","R",
      "o","B","O","T"," ","c","h","e","c","k">>

\* 'sign in to confirm'
MsgLowerSignIn ==
    <<"s","i","g","n"," ","i","n"," ","t","o"," ","c","o","n","f","i","r",
      "m">>

\* the messages yt-dlp may fail with
Messages == {MsgSignInAge, MsgRobot, MsgLowerSignIn}

\* 'yt-dlp failed to extract video info: '
ExtractFailedPrefix ==
    <<"y","t","-","d","l","p"," ","f","a","i","l","e","d"," ","t","o"," ",
      "e","x","t","r","a","c","t"," ","v","i","d","e","o"," ","i","n","f",
      "o",":"," ">>

\* 'Failed to extract comments after trying '
AllFailedPrefix ==
    <<"F","a","i","l","e","d"," ","t","o"," ","e","x","t","r","a","c","t",
      " ","c","o","m","m","e","n","t","s"," ","a","f","t","e","r"," ","t",
      "r","y","i","n","g"," ">>

\* ' approaches. YouTube may be blocking access. Last error: '
AllFailedMiddle ==
    <<" ","a","p","p","r","o","a","c","h","e","s","."," ","Y","o","u","T",
      "u","b","e"," ","m","a","y"," ","b","e"," ","b","l","o","c","k","i",
      "n","g"," ","a","c","c","e","s","s","."," ","L","a","s","t"," ","e",
      "r","r","o","r",":"," ">>

\* 'Failed to extract comments after trying'
FailedAfterTrying ==
    <<"F","a","i","l","e","d"," ","t","o"," ","e","x","t","r","a","c","t",
      " ","c","o","m","m","e","n","t","s"," ","a","f","t","e","r"," ","t",
      "r","y","i","n","g">>

\* "Impossible d'extraire l'identifiant de la vidéo."
NoVideoId ==
    <<"I","m","p","o","s","s","i","b","l","e"," ","d","'","e","x","t","r",
      "a","i","r","e"," ","l","'","i","d","e","n","t","i","f","i","a","n",
      "t"," ","d","e"," ","l","a"," ","v","i","d","é","o",".">>

UpperCase ==
    <<"A", "B", "C", "D", "E", "F", "G", "H", "I", "J", "K", "L", "M",
      "N", "O", "P", "Q", "R", "S", "T", "U", "V", "W", "X", "Y", "Z">>

LowerCase ==
    <<"a", "b", "c", "d", "e", "f", "g", "h", "i", "j", "k", "l", "m",
      "n", "o", "p", "q", "r", "s", "t", "u", "v", "w", "x", "y", "z">>

\* s.lower()
Lower(s) ==
    [i \in 1..Len(s) |->
        IF \E k \in 1..Len(UpperCase) : UpperCase[k] = s[i]
        THEN LowerCase[CHOOSE k \in 1..Len(UpperCase) : UpperCase[k] = s[i]]
        ELSE s[i]]

\* a slip: both phrases are looked for in the lower-cased message
NotBotDetectionLowerBoth(error_msg) ==
    /\ ~Contains(Lower(error_msg), Lower(SignInToConfirm))
    /\ ~Contains(Lower(error_msg), Bot)

\* the test of the except clause: not the bot detection error, re-raise
NotBotDetection(error_msg) ==
    /\ ~Contains(error_msg, SignInToConfirm)
    /\ ~Contains(Lower(error_msg), Bot)

\* str(n) for the numbers the model prints
Str(n) == <<<<"0", "1", "2", "3", "4", "5", "6", "7", "8", "9">>[n + 1]>>

\* a slip: the basic configuration heads the list
ApproachesBasicFirst ==
    <<"basic", "chrome cookies", "firefox cookies", "custom headers", "extractor args">>

\* the tool configurations, in the order of the approaches list
Approaches ==
    <<"chrome cookies", "firefox cookies", "custom headers", "extractor args", "basic">>

ValueErrorNoId == [type |-> "ValueError", msg |-> NoVideoId]

\* RuntimeError(f"yt-dlp failed to extract video info: {str(e)}")
ExtractFailed(error_msg) ==
    [type |-> "RuntimeError", msg |-> ExtractFailedPrefix \o error_msg]

\* RuntimeError(f"Failed to extract comments after trying {len(approaches)}
\* approaches. YouTube may be blocking access. Last error: {last_error}")
AllApproachesFailed(last_error) ==
    [type |-> "RuntimeError",
     msg |-> AllFailedPrefix \o Str(Len(Approaches)) \o AllFailedMiddle \o last_error]

(***************************************************************************)
(* Comments: lines 152-171 of fetch_comments.  A comment is a dict with    *)
(* the keys "text" and "txt"; <<>> is a missing, None or empty value.      *)
(***************************************************************************)
CommentTop == [text |-> <<" ", "T", "o", "p", "\n">>, txt |-> <<>>]
CommentTxt == [text |-> <<>>, txt |-> <<"o", "k">>]
CommentSpace == [text |-> <<" ">>, txt |-> <<"n", "o">>]
CommentNone == [text |-> <<>>, txt |-> <<>>]

\* the "comments" value of the info dict or of the .info.json file
RawComments == {<<>>, <<CommentTop, CommentNone, CommentTxt>>, <<CommentSpace>>}

\* the .info.json file: absent, or holding comments
NoJson == <<"no file">>
JsonFiles == {NoJson} \cup {<<"file", c>> : c \in RawComments}

\* comments_raw: the info dict's comments, else those of the json file
CommentsRaw(info_comments, json_file) ==
    IF info_comments # <<>> THEN info_comments
    ELSE IF json_file # NoJson THEN json_file[2]
    ELSE <<>>

\* comments_text: the stripped text of every comment whose text is not empty
CommentsText(comments_raw) ==
    LET textOf(c) == IF c.text # <<>> THEN c.text ELSE c.txt
        withText == SelectSeq(comments_raw, LAMBDA c : textOf(c) # <<>>)
    IN  [k \in 1..Len(withText) |-> Strip(textOf(withText[k]))]

(***************************************************************************)
(* Subtitle files.  A file is its name cut at the dots, as                  *)
(* file.name.split(".") gives it: <<video id, language, "srt">>.            *)
(***************************************************************************)
\* the languages yt-dlp may write subtitles in
SubtitleTags == {"fr", "en", "es", "de"}

\* options of the "Langue des sous-titres" select box
LangOptions == {"fr", "en", "es", "de", "it"}

\* subtitle_path is None
NoFile == <<>>

SubtitleFile(video_id, tag) == <<video_id, tag, "srt">>

\* 'Hola'
Hola == <<"H", "o", "l", "a">>

\* '1\n00:00:01,000 --> 00:00:02,000\n\n': a file without any text line
NoTextFile ==
    <<"1","\n","0","0",":","0","0",":","0","1",",","0","0","0"," ","-","-",
      ">"," ","0","0",":","0","0",":","0","2",",","0","0","0","\n","\n">>

\* f.read() of a subtitle file
FileContents(file) ==
    CASE file[Len(file) - 1] = "en" -> Scenario
      [] file[Len(file) - 1] = "fr" -> MessyInput
      [] file[Len(file) - 1] = "es" -> Hola
      [] OTHER -> NoTextFile

\* work_dir.glob(f"{video_id}.*.srt"): some files, in any order the file
\* system lists them in
Listings(video_id) ==
    LET tagSeqs == UNION {[1..n -> SubtitleTags] : n \in 0..MaxFiles}
        distinct == {s \in tagSeqs : \A i, j \in 1..Len(s) : i # j => s[i] # s[j]}
    IN  {[k \in 1..Len(s) |-> SubtitleFile(video_id, s[k])] : s \in distinct}

(***************************************************************************)
(* The choice of the subtitle file: lines 334-351 of fetch_transcript.     *)
(***************************************************************************)
\* the for loop over possible_files from file k: the index of the first file
\* whose language code is the requested one, 0 when the loop ends without break
RECURSIVE FindLanguage(_, _, _)
FindLanguage(possible_files, language, k) ==
    IF k > Len(possible_files) THEN 0
    ELSE LET suffix_parts == possible_files[k]
         IN  IF /\ Len(suffix_parts) >= 3
                /\ suffix_parts[Len(suffix_parts) - 1] = language
             THEN k
             ELSE FindLanguage(possible_files, language, k + 1)

\* a slip: no search for the requested language, the first file is taken
SelectSubtitleFirst(possible_files, language) ==
    IF possible_files # <<>>
    THEN [subtitle_path |-> possible_files[1],
          selected_lang |-> possible_files[1][Len(possible_files[1]) - 1]]
    ELSE [subtitle_path |-> NoFile, selected_lang |-> ""]

\* a slip: the fallback reports the requested language, not the file's own
SelectSubtitleRequestedTag(possible_files, language) ==
    LET k == FindLanguage(possible_files, language, 1)
    IN  IF k > 0
        THEN [subtitle_path |-> possible_files[k], selected_lang |-> language]
        ELSE IF possible_files # <<>>
        THEN [subtitle_path |-> possible_files[1], selected_lang |-> language]
        ELSE [subtitle_path |-> NoFile, selected_lang |-> ""]

\* a slip: selected_lang starts as the requested language
SelectSubtitleDefaultTag(possible_files, language) ==
    LET k == FindLanguage(possible_files, language, 1)
    IN  IF k > 0
        THEN [subtitle_path |-> possible_files[k], selected_lang |-> language]
        ELSE IF possible_files # <<>>
        THEN [subtitle_path |-> possible_files[1],
              selected_lang |-> possible_files[1][Len(possible_files[1]) - 1]]
        ELSE [subtitle_path |-> NoFile, selected_lang |-> language]

\* subtitle_path and selected_lang after lines 335-351
SelectSubtitle(possible_files, language) ==
    LET k == FindLanguage(possible_files, language, 1)
    IN  IF k > 0
        THEN [subtitle_path |-> possible_files[k],
              selected_lang |-> possible_files[k][Len(possible_files[k]) - 1]]
        ELSE IF possible_files # <<>>
        THEN LET parts == possible_files[1]
             IN  [subtitle_path |-> parts,
                  selected_lang |-> IF Len(parts) >= 3 THEN parts[Len(parts) - 1]
                                    ELSE language]
        ELSE [subtitle_path |-> NoFile, selected_lang |-> ""]

\* contents read at lines 354-356, <<>> when no file was chosen
ReadContents(subtitle_path) ==
    IF subtitle_path # NoFile THEN FileContents(subtitle_path) ELSE <<>>

\* transcript of lines 353-357
TranscriptOf(subtitle_path) ==
    IF subtitle_path # NoFile THEN ParseSrtContents(ReadContents(subtitle_path))
    ELSE <<>>

(***************************************************************************)
(* Auto-detect selection.  app.py under src/ has no auto-detect mode; this *)
(* is the selection policy of section 4.2 of the specification.            *)
(***************************************************************************)
\* the request that asks for auto-detection
AutoDetect == "auto"

\* the preferred tags, most preferred first
PriorityList == <<"en", "fr">>

\* the nested scan from preferred tag p on: the first preferred tag that some
\* candidate carries, with that candidate's index; <<>> when none matches
RECURSIVE ScanPriority(_, _, _)
ScanPriority(priority, candidates, p) ==
    IF p > Len(priority) THEN <<>>
    ELSE LET k == FindLanguage(candidates, priority[p], 1)
         IN  IF k > 0 THEN <<priority[p], k>>
             ELSE ScanPriority(priority, candidates, p + 1)

\* a slip: the scan walks the candidates and asks whether the tag is preferred
SelectAutoFirstPreferred(priority, candidates) ==
    LET preferred == {priority[p] : p \in 1..Len(priority)}
        hits == {k \in 1..Len(candidates) :
                    candidates[k][Len(candidates[k]) - 1] \in preferred}
    IN  IF hits # {}
        THEN [subtitle_path |-> candidates[Min(hits)],
              selected_lang |-> candidates[Min(hits)][Len(candidates[Min(hits)]) - 1]]
        ELSE IF candidates # <<>>
        THEN [subtitle_path |-> candidates[1],
              selected_lang |-> candidates[1][Len(candidates[1]) - 1]]
        ELSE [subtitle_path |-> NoFile, selected_lang |-> ""]

SelectAuto(priority, candidates) ==
    LET hit == ScanPriority(priority, candidates, 1)
    IN  IF hit # <<>>
        THEN [subtitle_path |-> candidates[hit[2]], selected_lang |-> hit[1]]
        ELSE IF candidates # <<>>
        THEN LET parts == candidates[1]
             IN  [subtitle_path |-> parts,
                  selected_lang |-> IF Len(parts) >= 3 THEN parts[Len(parts) - 1]
                                    ELSE "unknown"]
        ELSE [subtitle_path |-> NoFile, selected_lang |-> ""]

(***************************************************************************)
(* What main renders below the form: widgets, in page order.               *)
(***************************************************************************)
Widget(kind, label, arg) == [widget |-> kind, label |-> label, arg |-> arg]

\* max_display
MaxDisplay == 100

\* a slip: the transcript section is shown whenever a language was selected
RenderResultsByLang(comments_text, actual, text) ==
    <<Widget("success", "Récupération terminée !", <<>>)>>
    \o (IF actual # ""
        THEN <<Widget("subheader", "Transcription", actual),
               Widget("text_area", "Texte du transcript", text),
               Widget("download_button", "Télécharger la transcription", text)>>
        ELSE <<Widget("warning",
                      "Aucune transcription n'a été trouvée pour cette vidéo.", <<>>)>>)
    \o (IF comments_text # <<>>
        THEN <<Widget("subheader", "Commentaires", Len(comments_text)),
               Widget("download_button", "Télécharger les commentaires",
                      Join(comments_text, <<"\n">>))>>
        ELSE <<Widget("warning",
                      "Aucun commentaire n'a pu être récupéré pour cette vidéo.", <<>>)>>)

\* lines 423-462: the page after both fetches returned
RenderResults(comments_text, actual, text) ==
    <<Widget("success", "Récupération terminée !", <<>>)>>
    \o (IF text # <<>>
        THEN <<Widget("subheader", "Transcription", actual),
               Widget("text_area", "Texte du transcript", text),
               Widget("download_button", "Télécharger la transcription", text)>>
        ELSE <<Widget("warning",
                      "Aucune transcription n'a été trouvée pour cette vidéo.", <<>>)>>)
    \o (IF comments_text # <<>>
        THEN <<Widget("subheader", "Commentaires", Len(comments_text))>>
             \o [k \in 1..(IF Len(comments_text) < MaxDisplay
                           THEN Len(comments_text) ELSE MaxDisplay) |->
                    Widget("markdown", "Commentaire", comments_text[k])]
             \o (IF Len(comments_text) > MaxDisplay
                 THEN <<Widget("info", "autres commentaires non affichés.",
                               Len(comments_text) - MaxDisplay)>>
                 ELSE <<>>)
             \o <<Widget("download_button", "Télécharger les commentaires",
                         Join(comments_text, <<"\n">>))>>
        ELSE <<Widget("warning",
                      "Aucun commentaire n'a pu être récupéré pour cette vidéo.", <<>>)>>)

\* lines 463-505: the except clause of main (labels without their leading emoji)
RenderError(exc) ==
    (IF Contains(exc.msg, SignInToConfirm) \/ Contains(Lower(exc.msg), Bot)
     THEN <<Widget("error", "YouTube a détecté une activité automatisée", <<>>)>>
     ELSE IF Contains(exc.msg, FailedAfterTrying)
     THEN <<Widget("error",
                   "Impossible de récupérer les données après plusieurs tentatives",
                   <<>>)>>
     ELSE <<Widget("error", "Une erreur est survenue", exc.msg)>>)
    \o <<Widget("expander", "Détails techniques de l'erreur", exc.msg)>>

\* whether a widget of this kind and label is on the page
Shown(page, kind, label) ==
    \E i \in 1..Len(page) : page[i].widget = kind /\ page[i].label = label

(***************************************************************************)
(* State.                                                                  *)
(***************************************************************************)
VARIABLES
    \* the normalizer on its own: input, output, output of a second pass
    srt_in, srt_out, srt_again, npc,
    \* the selection on its own: request, candidates in enumeration order, result
    sel_language, sel_files, sel_result, spc,
    \* main: the form, the fetch in progress and the page
    pc, url, lang, fn, approach_num, attempts, last_error, comments,
    possible_files, subtitle_path, contents, actual_lang, transcript, raised,
    rendered

normVars == <<srt_in, srt_out, srt_again, npc>>

selVars == <<sel_language, sel_files, sel_result, spc>>

fetchVars == <<fn, approach_num, attempts, last_error>>

resultVars ==
    <<comments, possible_files, subtitle_path, contents, actual_lang, transcript>>

appVars == <<pc, url, lang, fetchVars, resultVars, raised, rendered>>

vars == <<normVars, selVars, appVars>>

NoSelection == [subtitle_path |-> NoFile, selected_lang |-> ""]

IdleNorm ==
    /\ srt_in = <<>>
    /\ srt_out = <<>>
    /\ srt_again = <<>>
    /\ npc = "idle"

IdleSel ==
    /\ sel_language = ""
    /\ sel_files = <<>>
    /\ sel_result = NoSelection
    /\ spc = "idle"

IdleApp ==
    /\ pc = "idle"
    /\ url = <<>>
    /\ lang = "fr"
    /\ fn = ""
    /\ approach_num = 0
    /\ attempts = <<>>
    /\ last_error = NoError
    /\ comments = <<>>
    /\ possible_files = <<>>
    /\ subtitle_path = NoFile
    /\ contents = <<>>
    /\ actual_lang = ""
    /\ transcript = <<>>
    /\ raised = NoError
    /\ rendered = <<>>

(***************************************************************************)
(* The normalizer on every short text and on the sample files.             *)
(***************************************************************************)
InitNorm ==
    /\ srt_in \in Texts \cup SampleTexts
    /\ srt_out = <<>>
    /\ srt_again = <<>>
    /\ npc = "input"
    /\ IdleSel
    /\ IdleApp

\* parse_srt_contents(contents)
Normalize ==
    /\ npc = "input"
    /\ srt_out' = ParseSrtContents(srt_in)
    /\ npc' = "parsed"
    /\ UNCHANGED <<srt_in, srt_again, selVars, appVars>>

\* parse_srt_contents applied to its own output
Renormalize ==
    /\ npc = "parsed"
    /\ srt_again' = ParseSrtContents(srt_out)
    /\ npc' = "reparsed"
    /\ UNCHANGED <<srt_in, srt_out, selVars, appVars>>

NextNorm == Normalize \/ Renormalize

SpecNorm == InitNorm /\ [][NextNorm]_vars

(***************************************************************************)
(* The selection on every request and every listing.                       *)
(***************************************************************************)
InitSelect ==
    /\ sel_language \in LangOptions \cup {AutoDetect}
    /\ sel_files \in Listings(VideoId(UrlShort))
    /\ sel_result = NoSelection
    /\ spc = "request"
    /\ IdleNorm
    /\ IdleApp

\* specific-language mode: lines 334-351 of fetch_transcript
SelectSpecific ==
    /\ spc = "request"
    /\ sel_language # AutoDetect
    /\ sel_result' = SelectSubtitle(sel_files, sel_language)
    /\ spc' = "selected"
    /\ UNCHANGED <<sel_language, sel_files, normVars, appVars>>

\* auto-detect mode
SelectAutoDetect ==
    /\ spc = "request"
    /\ sel_language = AutoDetect
    /\ sel_result' = SelectAuto(PriorityList, sel_files)
    /\ spc' = "selected"
    /\ UNCHANGED <<sel_language, sel_files, normVars, appVars>>

NextSelect == SelectSpecific \/ SelectAutoDetect

SpecSelect == InitSelect /\ [][NextSelect]_vars

(***************************************************************************)
(* main: one form submission.  A step is taken when the form is submitted  *)
(* and each time the call into yt-dlp inside a try block comes back.       *)
(***************************************************************************)
Init ==
    /\ pc = "form"
    /\ url = <<>>
    /\ lang = "fr"
    /\ fn = ""
    /\ approach_num = 0
    /\ attempts = <<>>
    /\ last_error = NoError
    /\ comments = <<>>
    /\ possible_files = <<>>
    /\ subtitle_path = NoFile
    /\ contents = <<>>
    /\ actual_lang = ""
    /\ transcript = <<>>
    /\ raised = NoError
    /\ rendered = <<>>
    /\ IdleNorm
    /\ IdleSel

\* one pass through a try block: the configuration used and the exception
\* raised in it (NoError when the block reached its return)
Attempt(error) == [cfg |-> Approaches[approach_num], error |-> error]

\* the attempts of the call in progress; a new call starts a new record
Logged(function, error) ==
    IF fn = function
    THEN Append(attempts, Attempt(error))
    ELSE <<Attempt(error)>>

\* an exception reaches the except clause of main
Fails(exc) ==
    /\ raised' = exc
    /\ rendered' = RenderError(exc)
    /\ pc' = "done"

\* lines 411-414: submitted without a URL
SubmitEmpty(l) ==
    /\ pc = "form"
    /\ lang' = l
    /\ rendered' = <<Widget("error", "Merci de fournir une URL valide.", <<>>)>>
    /\ pc' = "done"
    /\ UNCHANGED <<url, fetchVars, resultVars, raised, normVars, selVars>>

\* lines 75-77: fetch_comments finds no video identifier in the URL
SubmitNoVideoId(u, l) ==
    /\ pc = "form"
    /\ u # <<>>
    /\ VideoId(u) = <<>>
    /\ url' = u
    /\ lang' = l
    /\ fn' = "fetch_comments"
    /\ Fails(ValueErrorNoId)
    /\ UNCHANGED <<approach_num, attempts, last_error, resultVars, normVars, selVars>>

\* lines 415-419, 75-146: fetch_comments enters its loop
Submit(u, l) ==
    /\ pc = "form"
    /\ u # <<>>
    /\ VideoId(u) # <<>>
    /\ url' = u
    /\ lang' = l
    /\ fn' = "fetch_comments"
    /\ approach_num' = 1
    /\ last_error' = NoError
    /\ pc' = "comments"
    /\ UNCHANGED <<attempts, resultVars, raised, rendered, normVars, selVars>>

\* lines 148-171, then 420-421 and 245-328: the try block of fetch_comments
\* returns and fetch_transcript enters its loop
CommentsReturn(info_comments, json_file) ==
    /\ pc = "comments"
    /\ attempts' = Logged("fetch_comments", NoError)
    /\ comments' = CommentsText(CommentsRaw(info_comments, json_file))
    /\ fn' = "fetch_comments"
    /\ approach_num' = 1
    /\ last_error' = NoError
    /\ pc' = "transcript"
    /\ UNCHANGED <<url, lang, possible_files, subtitle_path, contents, actual_lang,
                   transcript, raised, rendered, normVars, selVars>>

\* lines 173-179: not the bot detection error, re-raised at once
CommentsError(error_msg) ==
    /\ pc = "comments"
    /\ NotBotDetection(error_msg)
    /\ attempts' = Logged("fetch_comments", [type |-> "Exception", msg |-> error_msg])
    /\ last_error' = [type |-> "Exception", msg |-> error_msg]
    /\ Fails(ExtractFailed(error_msg))
    /\ UNCHANGED <<url, lang, fn, approach_num, resultVars, normVars, selVars>>

\* lines 173-182: the bot detection error, on to the next approach
CommentsBlocked(error_msg) ==
    /\ pc = "comments"
    /\ ~NotBotDetection(error_msg)
    /\ approach_num < Len(Approaches)
    /\ attempts' = Logged("fetch_comments", [type |-> "Exception", msg |-> error_msg])
    /\ last_error' = [type |-> "Exception", msg |-> error_msg]
    /\ approach_num' = approach_num + 1
    /\ UNCHANGED <<pc, url, lang, fn, resultVars, raised, rendered, normVars, selVars>>

\* lines 173-186: the bot detection error on the last approach
CommentsBlockedLast(error_msg) ==
    /\ pc = "comments"
    /\ ~NotBotDetection(error_msg)
    /\ approach_num = Len(Approaches)
    /\ attempts' = Logged("fetch_comments", [type |-> "Exception", msg |-> error_msg])
    /\ last_error' = [type |-> "Exception", msg |-> error_msg]
    /\ Fails(AllApproachesFailed(error_msg))
    /\ UNCHANGED <<url, lang, fn, approach_num, resultVars, normVars, selVars>>

\* lines 330-359, then 423-462: the try block of fetch_transcript returns
\* and main renders the page
TranscriptReturn(files) ==
    /\ pc = "transcript"
    /\ attempts' = Logged("fetch_transcript", NoError)
    /\ fn' = "fetch_transcript"
    /\ possible_files' = files
    /\ subtitle_path' = SelectSubtitle(files, lang).subtitle_path
    /\ actual_lang' = SelectSubtitle(files, lang).selected_lang
    /\ contents' = ReadContents(subtitle_path')
    /\ transcript' = TranscriptOf(subtitle_path')
    /\ rendered' = RenderResults(comments, actual_lang', transcript')
    /\ pc' = "done"
    /\ UNCHANGED <<url, lang, approach_num, last_error, comments, raised,
                   normVars, selVars>>

\* lines 361-367: not the bot detection error, re-raised at once
TranscriptError(error_msg) ==
    /\ pc = "transcript"
    /\ NotBotDetection(error_msg)
    /\ attempts' = Logged("fetch_transcript", [type |-> "Exception", msg |-> error_msg])
    /\ fn' = "fetch_transcript"
    /\ last_error' = [type |-> "Exception", msg |-> error_msg]
    /\ Fails(ExtractFailed(error_msg))
    /\ UNCHANGED <<url, lang, approach_num, resultVars, normVars, selVars>>

\* lines 361-370: the bot detection error, on to the next approach
TranscriptBlocked(error_msg) ==
    /\ pc = "transcript"
    /\ ~NotBotDetection(error_msg)
    /\ approach_num < Len(Approaches)
    /\ attempts' = Logged("fetch_transcript", [type |-> "Exception", msg |-> error_msg])
    /\ fn' = "fetch_transcript"
    /\ last_error' = [type |-> "Exception", msg |-> error_msg]
    /\ approach_num' = approach_num + 1
    /\ UNCHANGED <<pc, url, lang, resultVars, raised, rendered, normVars, selVars>>

\* a slip: like fetch_comments, fetch_transcript raises once every approach
\* has met the bot detection error
TranscriptBlockedLastRaises(error_msg) ==
    /\ pc = "transcript"
    /\ ~NotBotDetection(error_msg)
    /\ approach_num = Len(Approaches)
    /\ attempts' = Logged("fetch_transcript", [type |-> "Exception", msg |-> error_msg])
    /\ fn' = "fetch_transcript"
    /\ last_error' = [type |-> "Exception", msg |-> error_msg]
    /\ Fails(AllApproachesFailed(error_msg))
    /\ UNCHANGED <<url, lang, approach_num, resultVars, normVars, selVars>>

\* lines 361-373, then 423-462: the bot detection error on the last approach;
\* fetch_transcript returns (language, "") and main renders the page
TranscriptBlockedLast(error_msg) ==
    /\ pc = "transcript"
    /\ ~NotBotDetection(error_msg)
    /\ approach_num = Len(Approaches)
    /\ attempts' = Logged("fetch_transcript", [type |-> "Exception", msg |-> error_msg])
    /\ fn' = "fetch_transcript"
    /\ last_error' = [type |-> "Exception", msg |-> error_msg]
    /\ actual_lang' = lang
    /\ transcript' = <<>>
    /\ rendered' = RenderResults(comments, lang, <<>>)
    /\ pc' = "done"
    /\ UNCHANGED <<url, lang, approach_num, comments, possible_files,
                   subtitle_path, contents, raised, normVars, selVars>>

Next ==
    \/ \E l \in LangOptions : SubmitEmpty(l)
    \/ \E u \in Urls, l \in LangOptions : SubmitNoVideoId(u, l)
    \/ \E u \in Urls, l \in LangOptions : Submit(u, l)
    \/ \E c \in RawComments, j \in JsonFiles : CommentsReturn(c, j)
    \/ \E e \in Messages : CommentsError(e)
    \/ \E e \in Messages : CommentsBlocked(e)
    \/ \E e \in Messages : CommentsBlockedLast(e)
    \/ \E f \in Listings(VideoId(url)) : TranscriptReturn(f)
    \/ \E e \in Messages : TranscriptError(e)
    \/ \E e \in Messages : TranscriptBlocked(e)
    \/ \E e \in Messages : TranscriptBlockedLast(e)

Spec == Init /\ [][Next]_vars

(***************************************************************************)
(* Properties of the normalizer.                                           *)
(***************************************************************************)
\* s.split(sep) for a one-character separator: always at least one piece
SplitOn(s, sep) ==
    LET at == SortedSeq({i \in 1..Len(s) : s[i] = sep})
        n == Len(at)
        from(k) == IF k = 1 THEN 1 ELSE at[k - 1] + 1
        to(k) == IF k = n + 1 THEN Len(s) ELSE at[k] - 1
    IN  [k \in 1..(n + 1) |-> SubSeq(s, from(k), to(k))]

SeqRange(s) == {s[i] : i \in 1..Len(s)}

Blank(line) == \A i \in 1..Len(line) : line[i] \in Whitespace

AllDigits(line) == Len(line) > 0 /\ \A i \in 1..Len(line) : line[i] \in Digits

\* a line the normalizer must never emit
Forbidden(line) == Blank(line) \/ AllDigits(line) \/ Contains(line, Arrow)

\* an input line that survives: judged on the trimmed line
Survives(line) == ~Forbidden(Strip(line))

\* the trimmed input lines that survive, in input order
SurvivingLines(text) ==
    LET lines == SplitLines(text)
        trimmed == [i \in 1..Len(lines) |-> Strip(lines[i])]
    IN  SelectSeq(trimmed, LAMBDA t : ~Forbidden(t))

\* C1: the output of parse_srt_contents holds no blank line, no line made only
\* of decimal digits and no line containing "-->", whether its lines are cut at
\* the joining newline or as splitlines cuts them; when no input line survives
\* the output is the empty string.
C1_OutputClean ==
    npc # "input" =>
        /\ srt_out # <<>> =>
              /\ \A line \in SeqRange(SplitOn(srt_out, "\n")) : ~Forbidden(line)
              /\ \A line \in SeqRange(SplitLines(srt_out)) : ~Forbidden(line)
        /\ (\A line \in SeqRange(SplitLines(srt_in)) : ~Survives(line))
              => srt_out = <<>>

\* a counter line, a timestamp line and a blank line were dropped, text was kept
C1_Witness ==
    /\ npc = "parsed"
    /\ srt_in = MessyInput
    /\ srt_out = <<"B", "o", "n", "j", "o", "u", "r">>

\* C2: the output is exactly the trimmed input lines that are non-empty, not all
\* digits and free of "-->", in input order, joined by one newline with no
\* leading or trailing separator; the two-block scenario gives
\* "Hello world\nSecond line".
C2_OutputExact ==
    npc # "input" =>
        /\ IF SurvivingLines(srt_in) = <<>>
           THEN srt_out = <<>>
           ELSE SplitOn(srt_out, "\n") = SurvivingLines(srt_in)
        /\ srt_in = Scenario => srt_out = ScenarioText

\* the two-block scenario has been normalized
C2_Witness ==
    /\ npc = "parsed"
    /\ srt_in = Scenario
    /\ srt_out = ScenarioText
    /\ Len(SurvivingLines(srt_in)) = 2

\* C3: parse_srt_contents applied to its own output returns that output.
C3_Idempotent == npc = "reparsed" => srt_again = srt_out

\* a second pass over an output of two lines, made from an input that lost lines
C3_Witness ==
    /\ npc = "reparsed"
    /\ Len(SplitLines(srt_in)) > Len(SplitLines(srt_out))
    /\ Len(SplitLines(srt_out)) = 2
    /\ srt_again = srt_out

(***************************************************************************)
(* Properties of the selection.                                            *)
(***************************************************************************)
\* the language tag of a candidate named <id>.<lang>.srt
TagOf(file) == file[2]

\* the try block of fetch_transcript reached its return
TranscriptReturned ==
    /\ pc = "done"
    /\ fn = "fetch_transcript"
    /\ attempts # <<>>
    /\ attempts[Len(attempts)].error = NoError

\* C4: in specific-language mode, when a candidate carries the requested tag,
\* that candidate is selected whatever the other candidates and their order:
\* the tag returned is the requested one, the contents read are that file's,
\* unchanged, and the transcript is their normalization.
C4_ExactMatchSelected ==
    TranscriptReturned =>
        \A k \in 1..Len(possible_files) :
            TagOf(possible_files[k]) = lang =>
                /\ subtitle_path = possible_files[k]
                /\ actual_lang = lang
                /\ contents = FileContents(possible_files[k])
                /\ transcript = ParseSrtContents(FileContents(possible_files[k]))

\* the requested language is the last of three candidates and is selected
C4_Witness ==
    /\ TranscriptReturned
    /\ Len(possible_files) = 3
    /\ TagOf(possible_files[3]) = lang
    /\ subtitle_path = possible_files[3]
    /\ contents = Scenario

\* C5: in specific-language mode, when there are candidates and none carries
\* the requested tag, the first candidate in enumeration order is selected and
\* the tag returned is that candidate's own; candidates {es: "Hola"} with
\* request "en" give tag "es" and contents "Hola".
C5_FallbackFirst ==
    (/\ TranscriptReturned
     /\ possible_files # <<>>
     /\ \A k \in 1..Len(possible_files) : TagOf(possible_files[k]) # lang) =>
        /\ subtitle_path = possible_files[1]
        /\ actual_lang = TagOf(possible_files[1])
        /\ actual_lang # lang
        /\ contents = FileContents(possible_files[1])
        /\ (lang = "en" /\ Len(possible_files) = 1 /\ TagOf(possible_files[1]) = "es")
              => actual_lang = "es" /\ contents = Hola

\* the fallback scenario: only "es" exists, "en" was requested
C5_Witness ==
    /\ TranscriptReturned
    /\ lang = "en"
    /\ Len(possible_files) = 1
    /\ TagOf(possible_files[1]) = "es"
    /\ actual_lang = "es"
    /\ contents = Hola

\* C6: for an empty candidate set the selection is "no selection", no tag and
\* no file to read contents from, in specific-language and in auto-detect mode.
C6_EmptyNoSelection ==
    (spc = "selected" /\ sel_files = <<>>) =>
        /\ sel_result.subtitle_path = NoFile
        /\ sel_result.selected_lang = ""
        /\ ReadContents(sel_result.subtitle_path) = <<>>

\* a specific-language selection over no candidate
C6_Witness ==
    /\ spc = "selected"
    /\ sel_files = <<>>
    /\ sel_language = "en"
    /\ sel_result = NoSelection

\* C7: in auto-detect mode the selection is the candidate carrying the earliest
\* tag of the priority list that any candidate carries, whatever the order of
\* the candidates; with priority list <<"en", "fr">> and candidates fr and en
\* the en candidate is selected.
C7_AutoPriority ==
    (spc = "selected" /\ sel_language = AutoDetect) =>
        LET carried == {p \in 1..Len(PriorityList) :
                           \E k \in 1..Len(sel_files) :
                               TagOf(sel_files[k]) = PriorityList[p]}
        IN  /\ carried # {} =>
                /\ sel_result.selected_lang = PriorityList[Min(carried)]
                /\ \E k \in 1..Len(sel_files) : sel_files[k] = sel_result.subtitle_path
                /\ TagOf(sel_result.subtitle_path) = PriorityList[Min(carried)]
            /\ ({TagOf(sel_files[k]) : k \in 1..Len(sel_files)} = {"fr", "en"}
                /\ PriorityList = <<"en", "fr">>)
                  => /\ sel_result.selected_lang = "en"
                     /\ TagOf(sel_result.subtitle_path) = "en"

\* candidates fr then en: en is selected although fr is enumerated first
C7_Witness ==
    /\ spc = "selected"
    /\ sel_language = AutoDetect
    /\ Len(sel_files) = 2
    /\ TagOf(sel_files[1]) = "fr"
    /\ TagOf(sel_files[2]) = "en"
    /\ sel_result.subtitle_path = sel_files[2]
    /\ sel_result.selected_lang = "en"

(***************************************************************************)
(* Properties of main and of the retry loops.                              *)
(***************************************************************************)
TranscriptSection ==
    {<<"subheader", "Transcription">>,
     <<"text_area", "Texte du transcript">>,
     <<"download_button", "Télécharger la transcription">>}

TranscriptWarningShown ==
    Shown(rendered, "warning", "Aucune transcription n'a été trouvée pour cette vidéo.")

\* both fetches of a submission with a URL came back without an exception
BothFetchesComplete == pc = "done" /\ url # <<>> /\ raised = NoError

\* C8: after a submission with a non-empty URL whose two fetches complete, the
\* success message is on the page; the transcript section (heading, text area,
\* download button) is there exactly when the transcript is not empty and the
\* warning exactly when it is empty, never both.
C8_SectionOrWarning ==
    BothFetchesComplete =>
        /\ Shown(rendered, "success", "Récupération terminée !")
        /\ \A w \in TranscriptSection : Shown(rendered, w[1], w[2]) <=> transcript # <<>>
        /\ TranscriptWarningShown <=> transcript = <<>>
        /\ ~(TranscriptWarningShown /\ \E w \in TranscriptSection : Shown(rendered, w[1], w[2]))

\* a subtitle file was selected but holds no text line: the warning is shown
C8_Witness ==
    /\ BothFetchesComplete
    /\ subtitle_path # NoFile
    /\ actual_lang = "de"
    /\ transcript = <<>>
    /\ TranscriptWarningShown
    /\ Shown(rendered, "success", "Récupération terminée !")

\* the order the claim gives the five configurations in
ClaimedOrder ==
    <<"chrome cookies", "firefox cookies", "custom headers", "extractor args", "basic">>

\* an error is a bot detection error when its message contains "Sign in to
\* confirm" or, in any letter case, "bot"
BotDetectionError(error) ==
    /\ error # NoError
    /\ \/ Contains(error.msg, SignInToConfirm)
       \/ \E i \in 1..(Len(error.msg) - 2) :
              /\ error.msg[i] \in {"b", "B"}
              /\ error.msg[i + 1] \in {"o", "O"}
              /\ error.msg[i + 2] \in {"t", "T"}

\* C9: in fetch_comments and in fetch_transcript the k-th attempt uses the k-th
\* configuration of the list (chrome cookies, firefox cookies, custom headers,
\* extractor args, basic), so none is used twice; every attempt before the
\* latest failed with a bot detection error; an attempt that does not raise is
\* the last one: the loop has ended and the call has produced its result.
C9_AttemptsInOrder ==
    /\ Len(attempts) <= Len(ClaimedOrder)
    /\ \A k \in 1..Len(attempts) : attempts[k].cfg = ClaimedOrder[k]
    /\ \A k \in 1..(Len(attempts) - 1) : BotDetectionError(attempts[k].error)
    /\ pc \in {"comments", "transcript"} /\ approach_num > 1 =>
          /\ Len(attempts) = approach_num - 1
          /\ BotDetectionError(attempts[Len(attempts)].error)
    /\ (attempts # <<>> /\ attempts[Len(attempts)].error = NoError) =>
          /\ fn = "fetch_comments" => pc = "transcript" /\ approach_num = 1
          /\ fn = "fetch_transcript" =>
                /\ pc = "done"
                /\ raised = NoError
                /\ actual_lang = SelectSubtitle(possible_files, lang).selected_lang

\* fetch_transcript succeeded with its fifth configuration after four bot
\* detection errors
C9_Witness ==
    /\ TranscriptReturned
    /\ Len(attempts) = 5
    /\ attempts[5].cfg = "basic"
    /\ \A k \in 1..4 : BotDetectionError(attempts[k].error)

\* C10: in both loops an attempt that fails with an error that is not a bot
\* detection error is the last attempt: the call ends at once with the
\* RuntimeError "yt-dlp failed to extract video info: " followed by the message.
C10_OtherErrorAborts ==
    \A k \in 1..Len(attempts) :
        (attempts[k].error # NoError /\ ~BotDetectionError(attempts[k].error)) =>
            /\ k = Len(attempts)
            /\ pc = "done"
            /\ raised.type = "RuntimeError"
            /\ raised.msg = ExtractFailedPrefix \o attempts[k].error.msg

\* the third attempt of fetch_transcript failed with "sign in to confirm", which
\* is no bot detection error, after two bot detection errors
C10_Witness ==
    /\ pc = "done"
    /\ fn = "fetch_transcript"
    /\ Len(attempts) = 3
    /\ attempts[3].error.msg = MsgLowerSignIn
    /\ BotDetectionError(attempts[2].error)
    /\ raised = ExtractFailed(MsgLowerSignIn)

\* all five attempts of the call in progress met a bot detection error
AllFiveBlocked(function) ==
    /\ fn = function
    /\ Len(attempts) = 5
    /\ \A k \in 1..5 : BotDetectionError(attempts[k].error)

\* an error box is on the page
ErrorShown == \E i \in 1..Len(rendered) : rendered[i].widget = "error"

\* C11: when all five attempts of fetch_transcript fail with bot detection
\* errors it raises nothing and returns the requested language with an empty
\* transcript, so main shows the page with the "no transcript" warning and no
\* error; fetch_comments in the same situation raises a RuntimeError whose
\* message gives the number of approaches, 5, and the last error.
C11_BlockedTranscriptSilent ==
    /\ AllFiveBlocked("fetch_transcript") =>
          /\ pc = "done"
          /\ raised = NoError
          /\ actual_lang = lang
          /\ transcript = <<>>
          /\ ~ErrorShown
          /\ Shown(rendered, "success", "Récupération terminée !")
          /\ TranscriptWarningShown
    /\ AllFiveBlocked("fetch_comments") =>
          /\ pc = "done"
          /\ raised.type = "RuntimeError"
          /\ raised.msg = AllFailedPrefix \o <<"5">> \o AllFailedMiddle
                              \o attempts[5].error.msg
          /\ ErrorShown

\* fetch_transcript was blocked five times for a request of "it"; the page
\* reports success and the last error stays inside the call
C11_Witness ==
    /\ AllFiveBlocked("fetch_transcript")
    /\ pc = "done"
    /\ lang = "it"
    /\ actual_lang = "it"
    /\ last_error.msg = MsgRobot
    /\ raised = NoError
    /\ ~ErrorShown

====
